---- MODULE Spec2Model ----
(***************************************************************************)
(* ChronoTravel: the location / photo generation workflow of App.tsx, the  *)
(* Sidebar's availability rules, and the generation client's retry policy  *)
(* of geminiService.ts, as one state machine.                              *)
(*                                                                         *)
(* Every await of the source is a suspension point: the code between two   *)
(* awaits is one action.  React state is one variable per useState cell;   *)
(* an asynchronous continuation writes it through the setter, whatever the *)
(* state has become meanwhile.                                             *)
(***************************************************************************)
EXTENDS Integers, Sequences, FiniteSets, TLC

\* ------------------------------------------------------------------ bounds
\* Total number of resolver requests / generation runs started in a behaviour.
MaxResolves == 2
MaxRuns == 2

\* ------------------------------------------------------- program constants
MaxRetries == 2
BackoffBase == 3000
BufferMs == 2000
RetryCeiling == 70000
TargetCount == 2

\* ------------------------------------------------------------ value spaces
Null == "null"
Coords == {"c1", "c2"}
Keys == {"k1"}
NoKey == ""

\* What the user can type into the key form: nothing, a blank, a key, a key
\* between blanks.
KeyInputs == {NoKey, " "} \cup Keys \cup {" " \o k \o " " : k \in Keys}

\* String.prototype.trim on those inputs.
trim(str) ==
    IF str = " " THEN ""
    ELSE IF \E k \in Keys : str = " " \o k \o " "
         THEN CHOOSE k \in Keys : str = " " \o k \o " "
         ELSE str

\* The other coordinate: the nearby point of interest the resolver may offer.
OtherOf(c) == IF c = "c1" THEN "c2" ELSE "c1"

\* The two shot variations of handleGenerate, in loop order.
variations == << "Wide Angle Shot (Establishing Context)",
                 "Medium Shot (Character Interaction)" >>

AppStatus == {"idle", "analyzing_location", "ready_to_generate",
              "generating_image", "complete", "error"}

\* enum TimeEra
PAST == "Past (Ancient/Historical)"
PRESENT == "Present Day"
FUTURE == "Future (Sci-Fi/Advanced)"
TimeEra == {PAST, PRESENT, FUTURE}

AVAILABLE_STYLES == {"Realistic", "Cinematic", "Documentary"}

\* A year is the string of the year field, kept as its characters.  The
\* values are those a number field or the slider can hold: empty, integers
\* with or without a sign, and decimals.
NoYear == << >>
DefaultPastYear == << "1", "9", "5", "0" >>
DefaultFutureYear == << "2", "0", "7", "7" >>
YearInputs ==
    { NoYear, DefaultPastYear, DefaultFutureYear,
      << "-", "1", "0", "0", "0", "0" >>,
      << "-", "5", "0", "0" >>,
      << "0" >>,
      << "1", "2", ".", "5" >>,
      << ".", "5" >>,
      << "-", "0", ".", "5" >> }

\* The free text of the scene field: empty, or some text.
CustomPrompts == {"", "at sunset"}

\* --------------------------------------------------------- year arithmetic
DigitChars == << "0", "1", "2", "3", "4", "5", "6", "7", "8", "9" >>
IsDigit(ch) == \E d \in DOMAIN DigitChars : DigitChars[d] = ch
DigitVal(ch) == (CHOOSE d \in DOMAIN DigitChars : DigitChars[d] = ch) - 1

\* A number as parseInt returns it: NaN, or an integer.
NaN == [isNaN |-> TRUE, value |-> 0]
Number(n) == [isNaN |-> FALSE, value |-> n]
isNaN(num) == num.isNaN

\* Leading white space is passed over.
RECURSIVE skipSpaces(_, _)
skipSpaces(str, i) ==
    IF i <= Len(str) /\ str[i] = " " THEN skipSpaces(str, i + 1) ELSE i

\* The digits from position i on, up to the first character that is none.
RECURSIVE digitsValue(_, _, _)
digitsValue(str, i, acc) ==
    IF i > Len(str) \/ ~IsDigit(str[i])
    THEN acc
    ELSE digitsValue(str, i + 1, acc * 10 + DigitVal(str[i]))

\* parseInt(str), radix 10: white space, an optional sign, then digits; NaN
\* when no digit follows.
parseInt(str) ==
    LET i == skipSpaces(str, 1)
        signed == i <= Len(str) /\ str[i] \in {"-", "+"}
        j == IF signed THEN i + 1 ELSE i
    IN  IF j > Len(str) \/ ~IsDigit(str[j])
        THEN NaN
        ELSE IF signed /\ str[i] = "-"
             THEN Number(0 - digitsValue(str, j, 0))
             ELSE Number(digitsValue(str, j, 0))

\* Math.abs
Abs(n) == IF n < 0 THEN 0 - n ELSE n

\* `${n}` of an integer n >= 0: its decimal digits.
RECURSIVE NumberToString(_)
NumberToString(n) ==
    IF n < 10
    THEN << DigitChars[n + 1] >>
    ELSE NumberToString(n \div 10) \o << DigitChars[(n % 10) + 1] >>

\* Mutant: the sign is displayed as parsed, without the suffix rule.
formatYearDisplay_AlwaysAD(valStr) ==
    LET val == parseInt(valStr)
    IN  IF isNaN(val)
        THEN valStr
        ELSE NumberToString(Abs(val.value)) \o << " A.D." >>

\* Sidebar: formatYearDisplay
formatYearDisplay(valStr) ==
    LET val == parseInt(valStr)
    IN  IF isNaN(val)
        THEN valStr
        ELSE IF val.value < 0
             THEN NumberToString(Abs(val.value)) \o << " B.C." >>
             ELSE NumberToString(val.value) \o << " A.D." >>

\* ----------------------------------------------------- the prompt composer
\* The text of generateTravelPhoto's request, by its pieces.  A piece that
\* interpolates a value holds that value; fixed wording is held as written.
NoInstruction == [heading |-> "", year |-> << >>, clauses |-> {}]

BCClauses ==
    { "MODERN CITIES DO NOT EXIST. Do NOT show modern buildings, roads, or ruins.",
      "Show the NATURAL LANDSCAPE exactly as it would have looked at these coordinates",
      "If early human settlements were historically present, depict them accurately",
      "Clothing MUST be primitive and accurate to the region and era" }

YearClauses ==
    { "Ensure architecture, street signs, technology, and background details match this year.",
      "If Future, use grounded sci-fi aesthetics suitable for this year" }

\* if (year) ... if (!isNaN(yearNum) && yearNum < 0)
isBC(year) == year # NoYear /\ ~isNaN(parseInt(year)) /\ parseInt(year).value < 0

\* Mutant: a year that does not parse is dropped from the descriptor.
timeDescription_DropsUnparsed(era, year) ==
    IF year = NoYear \/ isNaN(parseInt(year))
    THEN << era >>
    ELSE IF isBC(year)
         THEN << era, " (Specifically " >> \o NumberToString(Abs(parseInt(year).value))
                 \o << " B.C.)" >>
         ELSE << era, " (Specifically the year " >> \o year \o << ")" >>

timeDescription(era, year) ==
    IF year = NoYear
    THEN << era >>
    ELSE IF isBC(year)
         THEN << era, " (Specifically " >> \o NumberToString(Abs(parseInt(year).value))
                 \o << " B.C.)" >>
         ELSE << era, " (Specifically the year " >> \o year \o << ")" >>

\* Mutant: the B.C. branch is taken for every year that parses.
historicInstruction_AllBC(year) ==
    IF year = NoYear
    THEN NoInstruction
    ELSE IF ~isNaN(parseInt(year))
         THEN [heading |-> "CRITICAL HISTORICAL ACCURACY (B.C. ERA):",
               year |-> NumberToString(Abs(parseInt(year).value)) \o << " B.C." >>,
               clauses |-> BCClauses]
         ELSE [heading |-> "HISTORICAL ACCURACY:",
               year |-> year,
               clauses |-> YearClauses]

historicInstruction(year) ==
    IF year = NoYear
    THEN NoInstruction
    ELSE IF isBC(year)
         THEN [heading |-> "CRITICAL HISTORICAL ACCURACY (B.C. ERA):",
               year |-> NumberToString(Abs(parseInt(year).value)) \o << " B.C." >>,
               clauses |-> BCClauses]
         ELSE [heading |-> "HISTORICAL ACCURACY:",
               year |-> year,
               clauses |-> YearClauses]

NoSceneGiven == "No specific scene instructions provided."

textPrompt(locationName, coords, era, weatherCondition, year, scene, style, variation) ==
    [ opening |-> "Create a highly realistic and historically accurate travel photo.",
      location |-> locationName,
      coordinates |-> coords,
      eraYear |-> timeDescription(era, year),
      weather |-> weatherCondition,
      shotVariation |-> variation,
      userInstructions |-> IF scene = "" THEN NoSceneGiven ELSE scene,
      requirement1 |-> historicInstruction(year),
      subject |-> { "Insert the person from the reference image.",
                    "Maintain facial identity strictly.",
                    "CHANGE CLOTHING: The subject MUST wear clothing accurate to",
                    "Pose: Natural travel pose." },
      clothingFor |-> << timeDescription(era, year), weatherCondition >>,
      visualStyle |-> style,
      aesthetics |-> { "Photorealistic, 8k resolution, cinematic lighting.",
                       "No text, borders, or frames." } ]

\* ---------------------------------------------------------- service errors
\* A "retry in <x>s" hint is kept in tenths of a second (55 is "5.5"); NoHint
\* is a message the pattern does not match.
NoHint == -1
Hints == {NoHint, 50, 55, 680, 800}

\* An error thrown by the service call, by what the code reads of it:
\*   m429  : message includes "429"
\*   quota : message includes "Quota" or "RESOURCE_EXHAUSTED"
\*   cred  : message includes "400", "expired", "API_KEY_INVALID" or "not found"
\*   hint  : the number matched by /retry in ([0-9.]+)s/ in the message
\*   s429  : error.status === 429
\*   text  : error.message as displayed ("" when empty or missing)
Err(m429, quota, cred, hint, s429, text) ==
    [m429 |-> m429, quota |-> quota, cred |-> cred, hint |-> hint,
     s429 |-> s429, text |-> text]

SvcText == "service message"

SvcErrors ==
    { Err(TRUE, FALSE, FALSE, h, FALSE, SvcText) : h \in Hints }
    \cup { Err(FALSE, FALSE, FALSE, NoHint, TRUE, SvcText),
           Err(FALSE, FALSE, FALSE, NoHint, TRUE, ""),
           Err(FALSE, TRUE, FALSE, NoHint, FALSE, SvcText),
           Err(FALSE, FALSE, TRUE, NoHint, FALSE, SvcText),
           Err(TRUE, FALSE, TRUE, NoHint, FALSE, SvcText),
           Err(FALSE, FALSE, FALSE, NoHint, FALSE, SvcText) }

\* Errors raised by the client itself: new Error(text), and the FileReader's
\* error event, which has no message.
PlainError(text) == Err(FALSE, FALSE, FALSE, NoHint, FALSE, text)
NoImageError == PlainError("No image generated")
KeyRequiredError == PlainError("API Key is required")
ReadError == PlainError("")

\* ------------------------------------------------------------ retry policy
\* Math.ceil(parseFloat(match[1])) of a hint given in tenths.
CeilSeconds(h) == (h + 9) \div 10

RECURSIVE Pow2(_)
Pow2(n) == IF n = 0 THEN 1 ELSE 2 * Pow2(n - 1)

\* Mutant: the client takes a quota marker for a rate limit too.
isRateLimit_WithQuota(e) == e.m429 \/ e.s429 \/ e.quota

isRateLimit(e) == e.m429 \/ e.s429

backoffDelay_Swapped(retryCount) == BackoffBase * retryCount * retryCount

backoffDelay(retryCount) == BackoffBase * Pow2(retryCount)

suggestedDelay_AddsBackoff(h) == CeilSeconds(h) * 1000 + BackoffBase

suggestedDelay(h) == CeilSeconds(h) * 1000 + BufferMs

computeDelay(e, retryCount) ==
    IF e.hint # NoHint THEN suggestedDelay(e.hint) ELSE backoffDelay(retryCount)

mayRetry_Le(retryCount) == retryCount <= MaxRetries

mayRetry(retryCount) == retryCount < MaxRetries

worthWaiting_Le(delay) == delay <= RetryCeiling

worthWaiting_Seconds(delay) == delay \div 1000 < RetryCeiling

worthWaiting(delay) == delay < RetryCeiling

\* makeRequest's catch: wait and call again, or rethrow.
shouldRetry(e, retryCount) ==
    /\ isRateLimit(e)
    /\ mayRetry(retryCount)
    /\ worthWaiting(computeDelay(e, retryCount))

\* ------------------------------------------------------------------- state
VARIABLES
    apiKey,            \* App: apiKey
    apiKeyReady,       \* App: apiKeyReady
    keyInit,           \* the mount effect initApiKey has still to run
    selectedLocation,  \* App: selectedLocation (Null or coordinates)
    locationInfo,      \* App: locationInfo (NoInfo or a LocationContext)
    status,            \* App: status
    generatedImages,   \* App: generatedImages
    errorMessage,      \* App: errorMessage (NoMessage or a message)
    selectedFile,      \* Sidebar: a reference photo is attached
    overrideVague,     \* Sidebar: overrideVague
    selectedEra,       \* Sidebar: selectedEra
    selectedYear,      \* Sidebar: selectedYear (a string, as characters)
    customPrompt,      \* Sidebar: customPrompt
    selectedStyle,     \* Sidebar: selectedStyle
    resolves,          \* analyzeLocation requests in flight, per coordinates
    nResolves,         \* resolver requests started so far
    runs               \* handleGenerate runs, in flight and ended

appVars == << selectedLocation, locationInfo, status, generatedImages, errorMessage >>
keyVars == << apiKey, apiKeyReady, keyInit >>
formVars == << selectedEra, selectedYear, customPrompt, selectedStyle >>
sidebarVars == << selectedFile, overrideVague, formVars >>
vars == << apiKey, apiKeyReady, keyInit, selectedLocation, locationInfo, status,
           generatedImages, errorMessage, selectedFile, overrideVague,
           selectedEra, selectedYear, customPrompt, selectedStyle,
           resolves, nResolves, runs >>

\* locationInfo === null
NoInfo == [forLoc |-> Null, name |-> "", isVague |-> FALSE, nearbyPOIs |-> << >>,
           weather |-> ""]

\* A LocationContext parsed from the service's answer for coordinates c.
\* forLoc records which request the answer belongs to.
Context(c, vague, pois) ==
    [forLoc |-> c, name |-> "Named Place", isVague |-> vague, nearbyPOIs |-> pois,
     weather |-> "Sunny"]

\* analyzeLocation's catch: the fallback record.
Fallback(c) ==
    [forLoc |-> c, name |-> "Unknown Location", isVague |-> FALSE, nearbyPOIs |-> << >>,
     weather |-> "Unknown"]

\* What analyzeLocation can return for a request at c: the parsed object of an
\* answer, or the fallback record when the call, the text or the parse fails.
\* The object is whatever JSON the service wrote, cast without validation:
\* specific, or vague with a nearby point, as the request asks; but also
\* specific with a point listed, or vague with four points.
ResolverResults(c) ==
    { Context(c, FALSE, << >>), Context(c, TRUE, << OtherOf(c) >>), Fallback(c),
      Context(c, FALSE, << OtherOf(c) >>),
      Context(c, TRUE, << OtherOf(c), c, OtherOf(c), c >>) }

\* errorMessage === null
NoMessage == [kind |-> "none", wait |-> 0, prefix |-> "", detail |-> ""]
RateMessage(seconds) == [kind |-> "rate", wait |-> seconds, prefix |-> "", detail |-> ""]
InvalidKeyMessage == [kind |-> "invalid_key", wait |-> 0, prefix |-> "", detail |-> ""]
DefaultMessage(defaultMsg, detail) ==
    [kind |-> "default", wait |-> 0, prefix |-> defaultMsg, detail |-> detail]

AnalyzeFailed == "Failed to analyze location"
GenerateFailed == "Image generation failed"

\* The parts of a generation response: text, or inline data with its bytes.
TextPart == [inlineData |-> FALSE, data |-> ""]
InlinePart(bytes) == [inlineData |-> TRUE, data |-> bytes]

\* The bytes of the image the service generated, and bytes of another part.
Payload == "img"
OtherPayload == "alt"

\* response.candidates?.[0]?.content?.parts || [] of the answers the service
\* can give: no part, text only, the image alone, the image after a text
\* part, and the image followed by a second inline part.
Responses ==
    { << >>,
      << TextPart >>,
      << InlinePart(Payload) >>,
      << TextPart, InlinePart(Payload) >>,
      << TextPart, InlinePart(Payload), InlinePart(OtherPayload) >> }

NoUrl == ""
DataUri(bytes) == "data:image/png;base64," \o bytes

\* Mutant: the last inline part is taken.
scanParts_Last(parts, i) ==
    IF \E k \in DOMAIN parts : parts[k].inlineData
    THEN DataUri(parts[CHOOSE k \in DOMAIN parts :
                        /\ parts[k].inlineData
                        /\ \A j \in DOMAIN parts : parts[j].inlineData => j <= k].data)
    ELSE NoUrl

\* The loop over the parts, from part i on: the first with inlineData returns.
RECURSIVE scanParts(_, _)
scanParts(parts, i) ==
    IF i > Len(parts)
    THEN NoUrl
    ELSE IF parts[i].inlineData
         THEN DataUri(parts[i].data)
         ELSE scanParts(parts, i + 1)

\* What generateTravelPhoto returns for a response; NoUrl: it throws.
imageOf(parts) == scanParts(parts, 1)

\* One image: the data URI returned for variation var of run run.
Image(run, var) == [run |-> run, var |-> var, url |-> DataUri(Payload)]

\* A handleGenerate invocation.  loc, key: the coordinates and the key its
\* closure captured.  var: the variation whose call is current (for an ended
\* run, the last one).  retryCount: the argument of the current makeRequest.
\* attempts: service calls made so far for the current variation.  delay: the
\* wait in progress, and hint: the hint of the error that caused it.  got:
\* images this run appended.  phase: reading (blobToBase64), calling, waiting,
\* done, failed.  name, weather: locationInfo.name and its weather condition
\* as the closure captured them; era, year, scene, style: the arguments the
\* Sidebar passed.
NewRun(id, loc, key) ==
    [id |-> id, loc |-> loc, key |-> key, phase |-> "reading",
     var |-> 0, retryCount |-> 0, attempts |-> 0, delay |-> 0, hint |-> NoHint,
     got |-> 0,
     name |-> locationInfo.name, weather |-> locationInfo.weather,
     era |-> selectedEra, year |-> selectedYear, scene |-> customPrompt,
     style |-> selectedStyle]

\* Mutant: the style is read from the form at the time the text is used.
requestOf_ReadsForm(r) ==
    textPrompt(r.name, r.loc, r.era, r.weather, r.year, r.scene, selectedStyle,
               variations[r.var])

\* The text of the request run r has in flight for its current variation.
requestOf(r) ==
    textPrompt(r.name, r.loc, r.era, r.weather, r.year, r.scene, r.style,
               variations[r.var])

\* The runs that are inside generateTravelPhoto, past its check of the key:
\* each has composed the text of its request.
RequestsInFlight == {r \in runs : r.phase \in {"calling", "waiting"}}

\* The runs that have composed a request: the one in flight or, for a run
\* that ended, its last.
Composed == {r \in runs : r.var \in DOMAIN variations /\ r.key # NoKey}

\* The Sidebar's form as mounted: era Present, and its effect's empty year.
FormDefaults ==
    /\ selectedEra = PRESENT
    /\ selectedYear = NoYear
    /\ customPrompt = ""
    /\ selectedStyle = "Realistic"

Init ==
    /\ apiKey = NoKey
    /\ apiKeyReady = FALSE
    /\ keyInit = TRUE
    /\ selectedLocation = Null
    /\ locationInfo = NoInfo
    /\ status = "idle"
    /\ generatedImages = << >>
    /\ errorMessage = NoMessage
    /\ selectedFile = FALSE
    /\ overrideVague = FALSE
    /\ FormDefaults
    /\ resolves = [c \in Coords |-> 0]
    /\ nResolves = 0
    /\ runs = {}

\* ----------------------------------------------------------- App: the key
\* clearApiKey.  With apiKeyReady false App renders the welcome screen in
\* place of the map and the Sidebar, so the Sidebar's own state is dropped.
clearApiKey ==
    /\ apiKey' = NoKey
    /\ apiKeyReady' = FALSE
    /\ selectedFile' = FALSE
    /\ overrideVague' = FALSE
    /\ selectedEra' = PRESENT
    /\ selectedYear' = NoYear
    /\ customPrompt' = ""
    /\ selectedStyle' = "Realistic"

\* The mount effect: a key from the environment or from local storage, if any.
InitApiKey ==
    /\ keyInit
    /\ keyInit' = FALSE
    /\ \/ \E k \in Keys : apiKey' = k /\ apiKeyReady' = TRUE
       \/ UNCHANGED << apiKey, apiKeyReady >>
    /\ UNCHANGED << appVars, sidebarVars, resolves, nResolves, runs >>

\* Mutant: whatever was typed is taken as the key.
ManualKeySubmit_NoLengthCheck ==
    /\ ~apiKeyReady
    /\ \E keyInput \in KeyInputs :
          apiKey' = trim(keyInput) /\ apiKeyReady' = TRUE
    /\ UNCHANGED << keyInit, appVars, sidebarVars, resolves, nResolves, runs >>

\* handleManualKeySubmit, from the welcome screen's form.
ManualKeySubmit ==
    /\ ~apiKeyReady
    /\ \E keyInput \in KeyInputs :
          IF trim(keyInput) # ""
          THEN apiKey' = trim(keyInput) /\ apiKeyReady' = TRUE
          ELSE UNCHANGED << apiKey, apiKeyReady >>
    /\ UNCHANGED << keyInit, appVars, sidebarVars, resolves, nResolves, runs >>

\* ------------------------------------------------------- App: handleError
\* msg = error.message || JSON.stringify(error): the stringified error shows
\* its status field.
msgHas429(e) == IF e.text = "" THEN e.s429 ELSE e.m429

isQuotaError(e) == msgHas429(e) \/ e.quota

\* Mutant: the markers of an invalid key are looked at on their own.
isKeyError_IgnoresQuota(e) == e.cred

isKeyError(e) == ~isQuotaError(e) /\ e.cred

messageFor(e, defaultMsg) ==
    IF isQuotaError(e)
    THEN IF e.hint # NoHint THEN RateMessage(CeilSeconds(e.hint)) ELSE RateMessage(0)
    ELSE IF e.cred
         THEN InvalidKeyMessage
         ELSE DefaultMessage(defaultMsg, IF e.text = "" THEN "Unknown error" ELSE e.text)

\* Mutant: an invalid key is reported but kept.
handleError_KeepsKey(e, defaultMsg) ==
    /\ status' = "error"
    /\ errorMessage' = messageFor(e, defaultMsg)
    /\ UNCHANGED << apiKey, apiKeyReady, selectedFile, formVars, overrideVague >>

\* Mutant: the status is set, the message is not.
handleError_NoMessage(e, defaultMsg) ==
    /\ status' = "error"
    /\ errorMessage' = errorMessage
    /\ IF isKeyError(e)
       THEN clearApiKey
       ELSE UNCHANGED << apiKey, apiKeyReady, selectedFile, formVars, overrideVague >>

handleError(e, defaultMsg) ==
    /\ status' = "error"
    /\ errorMessage' = messageFor(e, defaultMsg)
    /\ IF isKeyError(e)
       THEN clearApiKey
       ELSE UNCHANGED << apiKey, apiKeyReady, selectedFile, formVars, overrideVague >>

\* ---------------------------------------------- App: handleLocationSelect
\* Mutant: a selection keeps the images of the previous place.
handleLocationSelect_KeepsImages(coords) ==
    IF ~apiKeyReady
    THEN UNCHANGED vars
    ELSE /\ selectedLocation' = coords
         /\ generatedImages' = generatedImages
         /\ locationInfo' = NoInfo
         /\ keyInit' = keyInit
         /\ UNCHANGED runs
         /\ IF apiKey = NoKey
            THEN \* analyzeLocation throws before any request: handleError,
                 \* which finds none of its markers in this message
                 /\ status' = "error"
                 /\ errorMessage' = messageFor(KeyRequiredError, AnalyzeFailed)
                 /\ overrideVague' = FALSE
                 /\ UNCHANGED << apiKey, apiKeyReady, selectedFile, formVars, resolves, nResolves >>
            ELSE /\ status' = "analyzing_location"
                 /\ errorMessage' = NoMessage
                 /\ overrideVague' = FALSE
                 /\ resolves' = [resolves EXCEPT ![coords] = @ + 1]
                 /\ nResolves' = nResolves + 1
                 /\ UNCHANGED << apiKey, apiKeyReady, selectedFile, formVars >>

\* Mutant: the selection does not look at apiKeyReady.
handleLocationSelect_NoGuard(coords) ==
    IF FALSE
    THEN UNCHANGED vars
    ELSE /\ selectedLocation' = coords
         /\ generatedImages' = << >>
         /\ locationInfo' = NoInfo
         /\ keyInit' = keyInit
         /\ UNCHANGED runs
         /\ IF apiKey = NoKey
            THEN \* analyzeLocation throws before any request: handleError,
                 \* which finds none of its markers in this message
                 /\ status' = "error"
                 /\ errorMessage' = messageFor(KeyRequiredError, AnalyzeFailed)
                 /\ overrideVague' = FALSE
                 /\ UNCHANGED << apiKey, apiKeyReady, selectedFile, formVars, resolves, nResolves >>
            ELSE /\ status' = "analyzing_location"
                 /\ errorMessage' = NoMessage
                 /\ overrideVague' = FALSE
                 /\ resolves' = [resolves EXCEPT ![coords] = @ + 1]
                 /\ nResolves' = nResolves + 1
                 /\ UNCHANGED << apiKey, apiKeyReady, selectedFile, formVars >>

\* Mutant: the override outlives the selection.
handleLocationSelect_KeepsOverride(coords) ==
    IF ~apiKeyReady
    THEN UNCHANGED vars
    ELSE /\ selectedLocation' = coords
         /\ generatedImages' = << >>
         /\ locationInfo' = NoInfo
         /\ keyInit' = keyInit
         /\ UNCHANGED runs
         /\ IF apiKey = NoKey
            THEN \* analyzeLocation throws before any request: handleError,
                 \* which finds none of its markers in this message
                 /\ status' = "error"
                 /\ errorMessage' = messageFor(KeyRequiredError, AnalyzeFailed)
                 /\ overrideVague' = FALSE
                 /\ UNCHANGED << apiKey, apiKeyReady, selectedFile, formVars, resolves, nResolves >>
            ELSE /\ status' = "analyzing_location"
                 /\ errorMessage' = NoMessage
                 /\ overrideVague' = overrideVague
                 /\ resolves' = [resolves EXCEPT ![coords] = @ + 1]
                 /\ nResolves' = nResolves + 1
                 /\ UNCHANGED << apiKey, apiKeyReady, selectedFile, formVars >>

\* analyzeLocation returns: the continuation of handleLocationSelect.
\* Up to the await of analyzeLocation.  The Sidebar's effect on [location]
\* resets overrideVague in the same turn.
handleLocationSelect(coords) ==
    IF ~apiKeyReady
    THEN UNCHANGED vars
    ELSE /\ selectedLocation' = coords
         /\ generatedImages' = << >>
         /\ locationInfo' = NoInfo
         /\ keyInit' = keyInit
         /\ UNCHANGED runs
         /\ IF apiKey = NoKey
            THEN \* analyzeLocation throws before any request: handleError,
                 \* which finds none of its markers in this message
                 /\ status' = "error"
                 /\ errorMessage' = messageFor(KeyRequiredError, AnalyzeFailed)
                 /\ overrideVague' = FALSE
                 /\ UNCHANGED << apiKey, apiKeyReady, selectedFile, formVars, resolves, nResolves >>
            ELSE /\ status' = "analyzing_location"
                 /\ errorMessage' = NoMessage
                 /\ overrideVague' = FALSE
                 /\ resolves' = [resolves EXCEPT ![coords] = @ + 1]
                 /\ nResolves' = nResolves + 1
                 /\ UNCHANGED << apiKey, apiKeyReady, selectedFile, formVars >>

\* analyzeLocation returns: the continuation of handleLocationSelect.
\* Mutant: the fallback record is reported as a failure.
commitResolution_Propagates(info) ==
    IF info.name = "Unknown Location"
    THEN locationInfo' = NoInfo /\ status' = "error"
    ELSE locationInfo' = info /\ status' = "ready_to_generate"

commitResolution(info) ==
    /\ locationInfo' = info
    /\ status' = "ready_to_generate"

ResolveReturn ==
    \E c \in Coords : \E info \in ResolverResults(c) :
        /\ resolves[c] > 0
        /\ commitResolution(info)
        /\ resolves' = [resolves EXCEPT ![c] = @ - 1]
        /\ UNCHANGED << keyVars, sidebarVars, selectedLocation, generatedImages,
                        errorMessage, nResolves, runs >>

\* ------------------------------------------------------ Sidebar: what shows
SidebarMounted == apiKeyReady

\* Mutant: the images are not looked at.
isVagueState_IgnoresImages ==
    /\ locationInfo # NoInfo
    /\ locationInfo.isVague
    /\ ~overrideVague

isVagueState ==
    /\ locationInfo # NoInfo
    /\ locationInfo.isVague
    /\ ~overrideVague
    /\ Len(generatedImages) = 0

\* The panel of the Sidebar past its "if (!location)" return.
PanelShown == SidebarMounted /\ selectedLocation # Null

VaguePanelShown == PanelShown /\ isVagueState /\ locationInfo # NoInfo

\* Mutant: the controls show for a vague place too.
ControlsShown_IgnoresVague ==
    PanelShown /\ locationInfo # NoInfo /\ Len(generatedImages) = 0

ControlsShown ==
    PanelShown /\ locationInfo # NoInfo /\ ~isVagueState /\ Len(generatedImages) = 0

GenerateEnabled == ControlsShown /\ selectedFile /\ status # "generating_image"

RegenerateShown ==
    /\ PanelShown
    /\ status = "generating_image" \/ Len(generatedImages) > 0
    /\ status = "complete"

ErrorPanelShown == PanelShown /\ status = "error" /\ errorMessage # NoMessage

\* ------------------------------------------------------------ user actions
MapClick ==
    /\ apiKeyReady
    /\ nResolves < MaxResolves
    /\ \E c \in Coords : handleLocationSelect(c)

\* Mutant: the point of interest is taken as resolved, without a request.
handlePoiSelect_Shortcut(poi) ==
    /\ selectedLocation' = poi
    /\ locationInfo' = Context(poi, FALSE, << >>)
    /\ status' = "ready_to_generate"
    /\ generatedImages' = << >>
    /\ errorMessage' = NoMessage
    /\ overrideVague' = FALSE
    /\ nResolves' = nResolves + 1
    /\ UNCHANGED << keyVars, selectedFile, formVars, resolves, runs >>

\* handlePoiSelect: the point's lat and lng, as new coordinates.
handlePoiSelect(poi) == handleLocationSelect(poi)

\* A button of the vague panel.
PoiSelect ==
    /\ VaguePanelShown
    /\ nResolves < MaxResolves
    /\ \E i \in DOMAIN locationInfo.nearbyPOIs :
          handlePoiSelect(locationInfo.nearbyPOIs[i])

UseExactSpot ==
    /\ VaguePanelShown
    /\ overrideVague' = TRUE
    /\ UNCHANGED << keyVars, appVars, selectedFile, formVars, resolves, nResolves, runs >>

\* handleFileChange
SelectFile ==
    /\ ControlsShown
    /\ selectedFile' = TRUE
    /\ UNCHANGED << keyVars, appVars, overrideVague, formVars, resolves, nResolves, runs >>

\* Mutant: Present keeps a year, the one of Future.
defaultYear_PresentKeepsYear(era) ==
    IF era = PAST THEN DefaultPastYear ELSE DefaultFutureYear

\* The effect on [selectedEra]: the year that goes with an era.
defaultYear(era) ==
    IF era = PAST THEN DefaultPastYear
    ELSE IF era = FUTURE THEN DefaultFutureYear
    ELSE NoYear

\* An era button: setSelectedEra, and, when the era changed, its effect.
SelectEra ==
    /\ ControlsShown
    /\ \E era \in TimeEra :
          /\ era # selectedEra
          /\ selectedEra' = era
          /\ selectedYear' = defaultYear(era)
    /\ UNCHANGED << keyVars, appVars, selectedFile, overrideVague, customPrompt,
                    selectedStyle, resolves, nResolves, runs >>

\* The year field or the slider, shown for Past and Future.
SetYear ==
    /\ ControlsShown
    /\ selectedEra \in {PAST, FUTURE}
    /\ \E year \in YearInputs : selectedYear' = year
    /\ UNCHANGED << keyVars, appVars, selectedFile, overrideVague, selectedEra,
                    customPrompt, selectedStyle, resolves, nResolves, runs >>

\* The scene field.
SetCustomPrompt ==
    /\ ControlsShown
    /\ \E text \in CustomPrompts : customPrompt' = text
    /\ UNCHANGED << keyVars, appVars, selectedFile, overrideVague, selectedEra,
                    selectedYear, selectedStyle, resolves, nResolves, runs >>

\* A style button.
SelectStyle ==
    /\ ControlsShown
    /\ \E style \in AVAILABLE_STYLES : selectedStyle' = style
    /\ UNCHANGED << keyVars, appVars, selectedFile, overrideVague, selectedEra,
                    selectedYear, customPrompt, resolves, nResolves, runs >>

\* Mutant: the reset leaves the error message in place.
handleReset_KeepsError ==
    /\ selectedLocation' = Null
    /\ locationInfo' = NoInfo
    /\ generatedImages' = << >>
    /\ status' = "idle"
    /\ errorMessage' = errorMessage

\* handleReset, from the panel's close button.
handleReset ==
    /\ selectedLocation' = Null
    /\ locationInfo' = NoInfo
    /\ generatedImages' = << >>
    /\ status' = "idle"
    /\ errorMessage' = NoMessage

Reset ==
    /\ PanelShown
    /\ handleReset
    /\ overrideVague' = FALSE
    /\ UNCHANGED << keyVars, selectedFile, formVars, resolves, nResolves, runs >>

\* onChangeKey, from the start panel or the error panel.
ChangeKey ==
    /\ SidebarMounted
    /\ selectedLocation = Null \/ ErrorPanelShown
    /\ clearApiKey
    /\ UNCHANGED << keyInit, appVars, resolves, nResolves, runs >>

\* ---------------------------------------------------- App: handleGenerate
SetRun(r, q) == runs' = (runs \ {r}) \cup {q}

\* Mutant: the handler starts a run without looking at the location.
handleGenerate_NoGuard ==
    /\ status' = "generating_image"
    /\ errorMessage' = NoMessage
    /\ generatedImages' = << >>
    /\ runs' = runs \cup
          {NewRun(Cardinality(runs) + 1, selectedLocation, apiKey)}
    /\ UNCHANGED << keyVars, sidebarVars, selectedLocation, locationInfo,
                    resolves, nResolves >>

\* Up to the await of blobToBase64.
handleGenerate ==
    IF selectedLocation = Null \/ locationInfo = NoInfo
    THEN UNCHANGED vars
    ELSE /\ status' = "generating_image"
         /\ errorMessage' = NoMessage
         /\ generatedImages' = << >>
         /\ runs' = runs \cup
               {NewRun(Cardinality(runs) + 1, selectedLocation, apiKey)}
         /\ UNCHANGED << keyVars, sidebarVars, selectedLocation, locationInfo,
                         resolves, nResolves >>

\* handleGenerateClick, from the "Generate 2 Travel Shots" button.
GenerateClick ==
    /\ GenerateEnabled
    /\ Cardinality(runs) < MaxRuns
    /\ handleGenerate

\* The Regenerate button.
RegenerateClick ==
    /\ RegenerateShown
    /\ selectedFile
    /\ Cardinality(runs) < MaxRuns
    /\ handleGenerate

\* Mutant: the loop swallows the failure and goes on to the next variation.
failRun_Continue(r, e) ==
    IF 0 < r.var /\ r.var < Len(variations)
    THEN /\ SetRun(r, [r EXCEPT !.phase = "calling", !.var = r.var + 1,
                                 !.retryCount = 0, !.attempts = 1, !.delay = 0])
         /\ UNCHANGED << keyVars, sidebarVars, appVars, resolves, nResolves >>
    ELSE /\ SetRun(r, [r EXCEPT !.phase = "failed", !.retryCount = 0, !.attempts = 0,
                                 !.delay = 0])
         /\ handleError(e, GenerateFailed)
         /\ UNCHANGED << keyInit, selectedLocation, locationInfo, generatedImages,
                         resolves, nResolves >>

\* Mutant: the failure rolls the accumulated images back.
failRun_Rollback(r, e) ==
    /\ SetRun(r, [r EXCEPT !.phase = "failed", !.retryCount = 0, !.attempts = 0,
                            !.delay = 0])
    /\ handleError(e, GenerateFailed)
    /\ generatedImages' = << >>
    /\ UNCHANGED << keyInit, selectedLocation, locationInfo, resolves, nResolves >>

\* The catch of handleGenerate: the run ends, handleError reports.
failRun(r, e) ==
    /\ SetRun(r, [r EXCEPT !.phase = "failed", !.retryCount = 0, !.attempts = 0,
                            !.delay = 0])
    /\ handleError(e, GenerateFailed)
    /\ UNCHANGED << keyInit, selectedLocation, locationInfo, generatedImages,
                    resolves, nResolves >>

\* generateTravelPhoto is entered for variation v: the key check, the prompt,
\* and the first makeRequest (retryCount 0) up to its await.
issueCall(r, v) ==
    IF r.key = NoKey
    THEN failRun([r EXCEPT !.var = v], KeyRequiredError)
    ELSE /\ SetRun(r, [r EXCEPT !.phase = "calling", !.var = v, !.retryCount = 0,
                                 !.attempts = 1, !.delay = 0])
         /\ UNCHANGED << keyVars, sidebarVars, appVars, resolves, nResolves >>

\* blobToBase64 resolves: the loop starts with the first variation.
ReadDone ==
    \E r \in runs :
        /\ r.phase = "reading"
        /\ issueCall(r, 1)

\* blobToBase64 rejects (reader.onerror).
ReadFail ==
    \E r \in runs :
        /\ r.phase = "reading"
        /\ failRun(r, ReadError)

\* Is there a variation after v in the loop?
moreVariations(v) == v < Len(variations)

\* The service answers with an image part: the data URI is appended, and the
\* loop goes on to the next variation or ends with status complete.
SvcImage ==
    \E r \in runs : \E response \in Responses :
        /\ r.phase = "calling"
        /\ imageOf(response) # NoUrl
        /\ generatedImages' = Append(generatedImages,
               [run |-> r.id, var |-> r.var, url |-> imageOf(response)])
        /\ IF moreVariations(r.var)
           THEN /\ SetRun(r, [r EXCEPT !.got = r.got + 1, !.var = r.var + 1,
                                        !.retryCount = 0, !.attempts = 1])
                /\ UNCHANGED status
           ELSE /\ SetRun(r, [r EXCEPT !.got = r.got + 1, !.phase = "done",
                                        !.retryCount = 0, !.attempts = 0])
                /\ status' = "complete"
        /\ UNCHANGED << keyVars, sidebarVars, selectedLocation, locationInfo,
                        errorMessage, resolves, nResolves >>

\* Mutant: an answer without an image is treated as a failure to retry.
noImageAnswer_Retry(r) ==
    IF mayRetry(r.retryCount)
    THEN /\ SetRun(r, [r EXCEPT !.phase = "waiting", !.hint = NoHint,
                                 !.delay = backoffDelay(r.retryCount)])
         /\ UNCHANGED << keyVars, sidebarVars, appVars, resolves, nResolves >>
    ELSE failRun(r, NoImageError)

\* generateTravelPhoto finds no inlineData part in the response it awaited:
\* it throws "No image generated", outside makeRequest's try.
noImageAnswer(r) == failRun(r, NoImageError)

\* The service answers without an image part.
SvcNoImage ==
    \E r \in runs : \E response \in Responses :
        /\ r.phase = "calling"
        /\ imageOf(response) = NoUrl
        /\ noImageAnswer(r)

\* The service call throws e: makeRequest's catch.
clientCatch(r, e) ==
    IF shouldRetry(e, r.retryCount)
    THEN /\ SetRun(r, [r EXCEPT !.phase = "waiting", !.hint = e.hint,
                                 !.delay = computeDelay(e, r.retryCount)])
         /\ UNCHANGED << keyVars, sidebarVars, appVars, resolves, nResolves >>
    ELSE failRun(r, e)

SvcError ==
    \E r \in runs : \E e \in SvcErrors :
        /\ r.phase = "calling"
        /\ clientCatch(r, e)

\* wait(delay) is over: makeRequest(retryCount + 1).
WaitDone ==
    \E r \in runs :
        /\ r.phase = "waiting"
        /\ SetRun(r, [r EXCEPT !.phase = "calling", !.retryCount = r.retryCount + 1,
                                !.attempts = r.attempts + 1, !.delay = 0,
                                !.hint = NoHint])
        /\ UNCHANGED << keyVars, sidebarVars, appVars, resolves, nResolves >>

\* ------------------------------------------------------------ specification
Next ==
    \/ InitApiKey
    \/ ManualKeySubmit
    \/ ChangeKey
    \/ MapClick
    \/ PoiSelect
    \/ ResolveReturn
    \/ UseExactSpot
    \/ SelectFile
    \/ Reset
    \/ GenerateClick
    \/ RegenerateClick
    \/ ReadDone
    \/ ReadFail
    \/ SvcImage
    \/ SvcNoImage
    \/ SvcError
    \/ WaitDone

Spec == Init /\ [][Next]_vars

\* The generation stage on its own: the session stands at a resolved location
\* with a photo attached, and from there only the generation proceeds (the
\* user generates and regenerates, the service answers, the waits end).
InitGeneration ==
    /\ apiKey \in Keys
    /\ apiKeyReady = TRUE
    /\ keyInit = FALSE
    /\ selectedLocation \in Coords
    /\ locationInfo \in { Context(selectedLocation, FALSE, << >>),
                          Fallback(selectedLocation) }
    /\ status = "ready_to_generate"
    /\ generatedImages = << >>
    /\ errorMessage = NoMessage
    /\ selectedFile = TRUE
    /\ overrideVague = FALSE
    /\ FormDefaults
    /\ resolves = [c \in Coords |-> 0]
    /\ nResolves = 1
    /\ runs = {}

NextGeneration ==
    \/ GenerateClick
    \/ RegenerateClick
    \/ ReadDone
    \/ ReadFail
    \/ SvcImage
    \/ SvcNoImage
    \/ SvcError
    \/ WaitDone

SpecGeneration == InitGeneration /\ [][NextGeneration]_vars

\* The selection stage on its own, with the handler also called while the key
\* is not ready.  The welcome screen shows neither the map nor the Sidebar, so
\* no element of the interface makes this call; line 102 of App.tsx answers it.
SelectUnready ==
    /\ ~apiKeyReady
    /\ nResolves < MaxResolves
    /\ \E c \in Coords : handleLocationSelect(c)

NextSelection ==
    \/ InitApiKey
    \/ ManualKeySubmit
    \/ ChangeKey
    \/ MapClick
    \/ PoiSelect
    \/ ResolveReturn
    \/ UseExactSpot
    \/ Reset
    \/ SelectUnready

SpecSelection == Init /\ [][NextSelection]_vars

\* The disambiguation loop on its own: the key is ready (taken from the
\* environment at mount), the user selects, picks points of interest, uses
\* the exact spot, resets and generates; the service answers with images.
InitReady ==
    /\ apiKey \in Keys
    /\ apiKeyReady = TRUE
    /\ keyInit = FALSE
    /\ selectedLocation = Null
    /\ locationInfo = NoInfo
    /\ status = "idle"
    /\ generatedImages = << >>
    /\ errorMessage = NoMessage
    /\ selectedFile = FALSE
    /\ overrideVague = FALSE
    /\ FormDefaults
    /\ resolves = [c \in Coords |-> 0]
    /\ nResolves = 0
    /\ runs = {}

NextDisambiguation ==
    \/ MapClick
    \/ PoiSelect
    \/ ResolveReturn
    \/ UseExactSpot
    \/ SelectFile
    \/ Reset
    \/ GenerateClick
    \/ ReadDone
    \/ SvcImage

SpecDisambiguation == InitReady /\ [][NextDisambiguation]_vars

\* The form and the composer on their own: at a resolved location with a
\* photo attached the user fills the form and generates; the service answers
\* with images.
NextPrompt ==
    \/ SelectEra
    \/ SetYear
    \/ SetCustomPrompt
    \/ SelectStyle
    \/ GenerateClick
    \/ ReadDone
    \/ SvcImage

SpecPrompt == InitGeneration /\ [][NextPrompt]_vars

\* Generation and regeneration with the era and style buttons: the user
\* picks an era and a style, generates, may pick again while no image has
\* arrived, and regenerates from the results.
NextRegenerate ==
    \/ SelectEra
    \/ SelectStyle
    \/ GenerateClick
    \/ RegenerateClick
    \/ ReadDone
    \/ SvcImage

SpecRegenerate == InitGeneration /\ [][NextRegenerate]_vars

\* One session with the key ready: selections, resets, generation and
\* regeneration interleaved with the answers of the resolver and of the
\* service, which arrive whenever they arrive.
NextSession ==
    \/ MapClick
    \/ ResolveReturn
    \/ UseExactSpot
    \/ SelectFile
    \/ Reset
    \/ GenerateClick
    \/ RegenerateClick
    \/ ReadDone
    \/ SvcImage
    \/ SvcError
    \/ WaitDone

SpecSession == InitReady /\ [][NextSession]_vars

TypeOK ==
    /\ apiKey \in Keys \cup {NoKey}
    /\ apiKeyReady \in BOOLEAN
    /\ selectedLocation \in Coords \cup {Null}
    /\ status \in AppStatus
    /\ nResolves \in 0..MaxResolves
    /\ Cardinality(runs) <= MaxRuns
    /\ selectedEra \in TimeEra
    /\ selectedYear \in YearInputs
    /\ customPrompt \in CustomPrompts
    /\ selectedStyle \in AVAILABLE_STYLES

\* ------------------------------------------------------------------ claims
\* The run of runs' that continues run r.
After(r) == CHOOSE q \in runs' : q.id = r.id

\* Run r ends in failure in this step.
FailsNow(r) == r.phase \in {"reading", "calling"} /\ After(r).phase = "failed"

\* The delay the retry policy is documented to compute for error e met on
\* attempt number attempt of a call: the server's hint rounded up to whole
\* seconds plus two seconds, or 3000 ms doubled per earlier retry.
DocumentedDelay(e, attempt) ==
    IF e.hint # NoHint
    THEN ((e.hint + 9) \div 10) * 1000 + 2000
    ELSE IF attempt = 1 THEN 3000 ELSE 6000

\* C1: whenever locationInfo is non-null it is the resolver's result for the
\* currently selected coordinates (a late answer to an earlier selection
\* overwrites nothing).
C1_InfoIsForSelection ==
    locationInfo # NoInfo => locationInfo.forLoc = selectedLocation

\* C2: whenever status is complete, generatedImages holds exactly the Wide
\* Angle image and then the Medium Shot image of one and the same run.
C2_CompleteHasBothShots ==
    status = "complete" =>
        /\ Len(generatedImages) = TargetCount
        /\ generatedImages[1].var = 1
        /\ generatedImages[2].var = 2
        /\ generatedImages[1].run = generatedImages[2].run

\* C3: a run gets to its second variation only by the step in which its first
\* call returned an image and that image was appended; a run that failed
\* makes no further step, so after a failed first call no second call is made.
C3_VariationsSequential ==
    [][ /\ \A q \in runs' :
              q.var = 2 =>
                 \E r \in runs :
                    /\ r.id = q.id
                    /\ \/ r.var = 2
                       \/ /\ r.var = 1
                          /\ r.phase = "calling"
                          /\ generatedImages' = Append(generatedImages, Image(r.id, 1))
        /\ \A r \in runs : r.phase = "failed" => r \in runs' ]_vars

C3_Witness ==
    \E r \in runs :
        /\ r.var = 2 /\ r.phase = "calling" /\ r.got = 1
        /\ generatedImages = << Image(r.id, 1) >>

\* C4: the step in which a variation's call fails terminally sets status to
\* error and leaves generatedImages as it was.
C4_FailureKeepsImages ==
    [][ \A r \in runs :
           FailsNow(r) => status' = "error" /\ generatedImages' = generatedImages ]_vars

C4_Witness ==
    \E r \in runs :
        /\ r.phase = "failed" /\ r.var = 2
        /\ status = "error"
        /\ generatedImages = << Image(r.id, 1) >>

\* A retry of the generation is on offer: the Generate button or the
\* Regenerate button would call handleGenerate with the Sidebar's parameters.
RetryOffered == GenerateEnabled \/ (RegenerateShown /\ selectedFile)

\* Run r is the session's only run in flight, and nothing has disturbed it:
\* the selection and the context are those it started from, the key is still
\* ready and the photo still attached.
Undisturbed(r) ==
    /\ status = "generating_image"
    /\ selectedLocation = r.loc
    /\ locationInfo # NoInfo
    /\ apiKeyReady
    /\ selectedFile
    /\ \A q \in runs \ {r} : q.phase \in {"done", "failed"}

\* C5: after the step in which a generation run fails terminally, whichever
\* variation failed, status is error and a retry with the stored parameters
\* is on offer.  Stated for the plain case: an undisturbed run, and a failure
\* that leaves the key in place.
C5_RetryAfterFailure ==
    [][ \A r \in runs :
           FailsNow(r) /\ Undisturbed(r) /\ apiKeyReady'
              => status' = "error" /\ RetryOffered' ]_vars

\* The states InitGeneration starts from are states of Spec.
GenerationStartReached ==
    /\ InitGeneration
    /\ locationInfo = Fallback(selectedLocation)

\* C6: no invocation of the generation client makes more than 3 service
\* attempts.
C6_AtMostThreeAttempts == \A r \in runs : r.attempts <= 3

C6_Witness == \E r \in runs : r.phase = "calling" /\ r.attempts = 3

\* C7: a wait caused by a rate-limit failure without a server hint lasts
\* 3000 ms before the first retry and 6000 ms before the second.
C7_BackoffDelays ==
    \A r \in runs :
        r.phase = "waiting" /\ r.hint = NoHint =>
            /\ r.attempts \in {1, 2}
            /\ r.attempts = 1 => r.delay = 3000
            /\ r.attempts = 2 => r.delay = 6000

C7_Witness ==
    \E r \in runs :
        r.phase = "waiting" /\ r.hint = NoHint /\ r.attempts = 2 /\ r.delay = 6000

\* C8: a wait caused by a failure hinting "retry in <n>s", n whole, lasts
\* n*1000 + 2000 ms, before the first retry as before the second.
C8_SuggestedDelay ==
    \A r \in runs :
        r.phase = "waiting" /\ r.hint # NoHint /\ r.hint % 10 = 0 =>
            r.delay = (r.hint \div 10) * 1000 + 2000

C8_Witness ==
    \E r \in runs :
        r.phase = "waiting" /\ r.hint = 50 /\ r.attempts = 2 /\ r.delay = 7000

\* C9: a rate-limit failure whose computed delay exceeds 70000 ms is followed
\* by no wait and no further attempt: in that very step the run fails and the
\* orchestrator reports the error.
C9_LongDelayPropagates ==
    [][ \A r \in runs : \A e \in SvcErrors :
           ( /\ r.phase = "calling"
             /\ clientCatch(r, e)
             /\ e.m429 \/ e.s429
             /\ r.attempts <= 2
             /\ DocumentedDelay(e, r.attempts) > 70000 )
           => /\ After(r).phase = "failed"
              /\ After(r).attempts = 0
              /\ status' = "error"
              /\ errorMessage'.kind = "rate" ]_vars

C9_Witness ==
    /\ status = "error"
    /\ errorMessage = RateMessage(80)
    /\ \E r \in runs : r.phase = "failed"

C11_NoRetryUnlessRateLimit ==
    [][ \A r \in runs : \A e \in SvcErrors :
           ( /\ r.phase = "calling"
             /\ clientCatch(r, e)
             /\ ~e.m429
             /\ ~e.s429 )
           => /\ After(r).phase = "failed"
              /\ After(r).var = r.var
              /\ status' = "error" ]_vars

C11_Witness ==
    /\ status = "error"
    /\ errorMessage = InvalidKeyMessage
    /\ \E r \in runs : r.phase = "failed" /\ r.var = 1 /\ r.got = 0

\* C12: the rate-limit message is shown only after the retry policy has run
\* its course.  Stated for failures carrying no "retry in" hint, whose delay
\* (3000 or 6000 ms) never passes the ceiling: the message appears only in the
\* step in which the third attempt of a call failed.
C12_RateMessageAfterRetries ==
    [][ \A r \in runs : \A e \in SvcErrors :
           ( /\ r.phase = "calling"
             /\ clientCatch(r, e)
             /\ e.hint = NoHint
             /\ status' = "error"
             /\ errorMessage'.kind = "rate" )
           => r.attempts = 3 ]_vars

\* C13: an answer of the service without an image part ends the run in that
\* very step, on the variation it was at, with no wait and no further call:
\* status is error and the message is the generic generation failure.
C13_NoImageIsTerminal ==
    [][ \A r \in runs :
           ( r.phase = "calling" /\ noImageAnswer(r) )
           => /\ After(r).phase = "failed"
              /\ After(r).var = r.var
              /\ status' = "error"
              /\ errorMessage' =
                    DefaultMessage("Image generation failed", "No image generated") ]_vars

C13_Witness ==
    /\ status = "error"
    /\ errorMessage = DefaultMessage("Image generation failed", "No image generated")
    /\ \E r \in runs : r.phase = "failed" /\ r.var = 1

\* C14: a failure carrying a credential marker and no rate-limit marker is not
\* retried; the step that meets it sets status error and the message asking
\* for a new key, and clears the key, which is then no longer ready.
C14_InvalidKeyClearsKey ==
    [][ \A r \in runs : \A e \in SvcErrors :
           ( /\ r.phase = "calling"
             /\ clientCatch(r, e)
             /\ e.cred
             /\ ~e.m429 /\ ~e.s429 /\ ~e.quota )
           => /\ After(r).phase = "failed"
              /\ status' = "error"
              /\ errorMessage'.kind = "invalid_key"
              /\ apiKey' = ""
              /\ apiKeyReady' = FALSE ]_vars

C14_Witness ==
    /\ status = "error"
    /\ errorMessage.kind = "invalid_key"
    /\ apiKey = ""
    /\ ~apiKeyReady
    /\ \E r \in runs : r.phase = "failed" /\ r.var = 2 /\ r.got = 1

\* C15: in every state, status error comes with a message.
C15_ErrorHasMessage == status = "error" => errorMessage.kind # "none"

C15_Witness ==
    /\ status = "error"
    /\ errorMessage = DefaultMessage("Image generation failed", "Unknown error")

\* C16: every return of the resolver, the fallback record included, sets a
\* context and status ready_to_generate; and status becomes error only in a
\* step in which a generation run fails.
C16_ResolverNeverFails ==
    [][ /\ \A c \in Coords :
              resolves'[c] < resolves[c] =>
                 /\ status' = "ready_to_generate"
                 /\ locationInfo'.forLoc = c
                 /\ locationInfo'.name \in {"Named Place", "Unknown Location"}
        /\ status' = "error" /\ status # "error" => \E r \in runs : FailsNow(r) ]_vars

C16_Witness ==
    /\ status = "ready_to_generate"
    /\ locationInfo.name = "Unknown Location"
    /\ ~locationInfo.isVague
    /\ \A c \in Coords : resolves[c] = 0
    /\ runs = {}

\* C17: the step that starts a resolver request is taken with the key ready
\* and, whatever the status before, leaves the chosen coordinates selected,
\* status analyzing_location, no image, no context and no message.
C17_SelectionClears ==
    [][ nResolves' # nResolves =>
           /\ apiKeyReady
           /\ selectedLocation' \in Coords
           /\ resolves'[selectedLocation'] = resolves[selectedLocation'] + 1
           /\ status' = "analyzing_location"
           /\ generatedImages' = << >>
           /\ locationInfo' = NoInfo
           /\ errorMessage'.kind = "none" ]_vars

C17_Witness ==
    /\ status = "analyzing_location"
    /\ generatedImages = << >>
    /\ locationInfo = NoInfo
    /\ errorMessage = NoMessage
    /\ \E r \in runs : r.phase = "failed" /\ r.got = 1

\* C18: handleLocationSelect called while the key is not ready changes
\* nothing: selection, context, images, status and message stay, and no
\* resolver request starts.
C18_SelectionNeedsKey ==
    [][ \A c \in Coords :
           ( ~apiKeyReady /\ handleLocationSelect(c) )
           => /\ UNCHANGED << selectedLocation, locationInfo, generatedImages,
                              status, errorMessage >>
              /\ UNCHANGED << resolves, nResolves >> ]_vars

C18_Witness ==
    /\ ~apiKeyReady
    /\ nResolves < MaxResolves
    /\ locationInfo # NoInfo
    /\ status = "ready_to_generate"

\* C19: the step that takes the selection away (the reset), whatever the
\* status before, leaves status idle, no context, no image and no message.
C19_ResetClears ==
    [][ selectedLocation # Null /\ selectedLocation' = Null =>
           /\ status' = "idle"
           /\ locationInfo' = NoInfo
           /\ generatedImages' = << >>
           /\ errorMessage'.kind = "none" ]_vars

C19_Witness ==
    /\ status = "idle"
    /\ selectedLocation = Null
    /\ errorMessage = NoMessage
    /\ \E r \in runs : r.phase = "failed"

\* C20: the Regenerate button shows only in status complete, and whenever it
\* shows, invoking it starts a run (a photo is attached, a location and its
\* context are set), which clears the images and sets generating_image.
C20_RegenerateRuns ==
    RegenerateShown =>
        /\ status = "complete"
        /\ selectedFile
        /\ selectedLocation # Null
        /\ locationInfo # NoInfo

\* C21: the vague state holds exactly when the context is vague, the override
\* is off and no image has been generated; each of the three alone, when
\* changed, ends it.
C21_VaguePredicate ==
    /\ ( /\ locationInfo.name # ""
         /\ locationInfo.isVague = TRUE
         /\ overrideVague = FALSE
         /\ Len(generatedImages) = 0 ) => isVagueState
    /\ locationInfo.isVague = FALSE => ~isVagueState
    /\ overrideVague = TRUE => ~isVagueState
    /\ Len(generatedImages) > 0 => ~isVagueState

C21_Witness ==
    /\ locationInfo.isVague = TRUE
    /\ overrideVague = FALSE
    /\ Len(generatedImages) = 1
    /\ ~isVagueState

\* C22: while the vague state holds the generation controls do not show and
\* no run starts; the override leaves the selection and its context in place
\* and brings the controls up.
C22_VagueBlocksGeneration ==
    [][ /\ isVagueState => ~ControlsShown /\ ~GenerateEnabled
        /\ Cardinality(runs') > Cardinality(runs) => ~isVagueState
        /\ overrideVague' /\ ~overrideVague =>
              /\ ControlsShown'
              /\ selectedLocation' = selectedLocation
              /\ locationInfo' = locationInfo ]_vars

C22_Witness ==
    /\ locationInfo.isVague = TRUE
    /\ overrideVague = TRUE
    /\ \E r \in runs : r.loc = selectedLocation /\ r.phase = "calling"
    /\ nResolves = 1

\* C23: every step that starts a resolution (map click or point of interest)
\* and every reset leaves the override off.
C23_OverrideReset ==
    [][ /\ nResolves' # nResolves => overrideVague' = FALSE
        /\ selectedLocation # Null /\ selectedLocation' = Null =>
              overrideVague' = FALSE ]_vars

C23_Witness ==
    /\ nResolves = 2
    /\ overrideVague = FALSE
    /\ isVagueState
    /\ \E r \in runs : r.loc # selectedLocation

\* C24: choosing a point of interest of the vague panel selects the point's
\* coordinates, sets analyzing_location, clears context and images, and starts
\* a resolver request for those coordinates.
C24_PoiStartsResolution ==
    [][ \A i \in DOMAIN locationInfo.nearbyPOIs :
           ( /\ VaguePanelShown
             /\ nResolves < MaxResolves
             /\ handlePoiSelect(locationInfo.nearbyPOIs[i]) )
           => /\ selectedLocation' = locationInfo.nearbyPOIs[i]
              /\ status' = "analyzing_location"
              /\ locationInfo' = NoInfo
              /\ generatedImages' = << >>
              /\ resolves'[locationInfo.nearbyPOIs[i]]
                    = resolves[locationInfo.nearbyPOIs[i]] + 1 ]_vars

C24_Witness ==
    /\ status = "analyzing_location"
    /\ nResolves = 2
    /\ locationInfo = NoInfo
    /\ \E c \in Coords : selectedLocation = c /\ resolves[c] = 1 /\ resolves[OtherOf(c)] = 0
    /\ runs = {}

\* C25: every context the orchestrator holds lists nearby points only if it is
\* vague, and lists at most 3 of them.
C25_PoisOnlyWhenVague ==
    locationInfo.name # "" =>
        /\ Len(locationInfo.nearbyPOIs) > 0 => locationInfo.isVague
        /\ Len(locationInfo.nearbyPOIs) <= 3

\* The URI of the first part of a response that carries inline data.
FirstInlineUri(parts) ==
    IF \E k \in DOMAIN parts : parts[k].inlineData
    THEN "data:image/png;base64,"
            \o parts[CHOOSE k \in DOMAIN parts :
                        /\ parts[k].inlineData
                        /\ \A j \in 1..(k - 1) : ~parts[j].inlineData].data
    ELSE ""

\* C30: for every response the client returns the bytes of the first part
\* with inline data as a data:image/png;base64 URI, passing over the parts
\* before it; every image held is such a URI.
C30_FirstInlinePart ==
    /\ \A response \in Responses : imageOf(response) = FirstInlineUri(response)
    /\ \A i \in DOMAIN generatedImages :
          \E response \in Responses :
             /\ FirstInlineUri(response) # ""
             /\ generatedImages[i].url = FirstInlineUri(response)

C30_Witness ==
    /\ Len(generatedImages) = 2
    /\ generatedImages[1].url = "data:image/png;base64,img"
    /\ generatedImages[2].url = "data:image/png;base64,img"
    /\ status = "complete"

\* ------------------------------------------------------------ C26 .. C29
BCHeading == "CRITICAL HISTORICAL ACCURACY (B.C. ERA):"
YearHeading == "HISTORICAL ACCURACY:"
BCDescriptor(era, n) ==
    << era, " (Specifically " >> \o NumberToString(n) \o << " B.C.)" >>
YearDescriptor(era, year) ==
    << era, " (Specifically the year " >> \o year \o << ")" >>
Minus500 == << "-", "5", "0", "0" >>
Minus10000 == << "-", "1", "0", "0", "0", "0" >>
PointFive == << ".", "5" >>

\* C26: a request whose year parses to a negative integer carries the
\* descriptor "<abs(year)> B.C." and the B.C. clauses; one whose year parses
\* to a non-negative integer carries "the year <year>" and the clauses on
\* architecture and technology; no request carries both sets of clauses.
C26_YearBranches ==
    \A r \in RequestsInFlight :
        LET p == requestOf(r)
            n == parseInt(r.year)
        IN  /\ (~isNaN(n) /\ n.value < 0) =>
                  /\ p.eraYear = BCDescriptor(r.era, 0 - n.value)
                  /\ p.requirement1.heading = BCHeading
                  /\ p.requirement1.year = NumberToString(0 - n.value) \o << " B.C." >>
                  /\ p.requirement1.clauses = BCClauses
            /\ (~isNaN(n) /\ n.value >= 0) =>
                  /\ p.eraYear = YearDescriptor(r.era, r.year)
                  /\ p.requirement1.heading = YearHeading
                  /\ p.requirement1.year = r.year
                  /\ p.requirement1.clauses = YearClauses
            /\ (p.requirement1.clauses \cap BCClauses = {}
                    \/ p.requirement1.clauses \cap YearClauses = {})
            /\ (r.year = Minus500 =>
                    p.eraYear = << r.era, " (Specifically ", "5", "0", "0", " B.C.)" >>)

\* A request for 500 B.C. has been answered with an image.
C26_Witness ==
    /\ \E r \in RequestsInFlight :
          /\ r.year = Minus500
          /\ r.var = 2
          /\ requestOf(r).requirement1.clauses = BCClauses
    /\ Len(generatedImages) = 1

\* C27: without a year the time descriptor is the era name alone; with a year
\* that does not parse the raw string is the year label, in the form that is
\* not the B.C. one.
C27_AbsentAndUnparsedYear ==
    \A r \in RequestsInFlight :
        LET p == requestOf(r)
        IN  /\ r.year = NoYear => p.eraYear = << r.era >>
            /\ (r.year # NoYear /\ isNaN(parseInt(r.year))) =>
                  /\ p.eraYear = YearDescriptor(r.era, r.year)
                  /\ p.requirement1.heading = YearHeading
                  /\ p.requirement1.year = r.year
                  /\ p.requirement1.clauses = YearClauses

\* A request with the year ".5", which does not parse, is in flight for the
\* Future era.
C27_Witness ==
    \E r \in RequestsInFlight :
        /\ r.year = PointFive
        /\ r.era = FUTURE
        /\ r.phase = "calling"
        /\ requestOf(r).eraYear = << FUTURE, " (Specifically the year ", ".", "5", ")" >>

\* C28: every request holds a historical-accuracy clause for its time
\* descriptor, together with the location name, the coordinates, the weather,
\* the variation, the scene text or its placeholder, the instruction to keep
\* the face, and the style.
C28_AlwaysHistoricClause ==
    \A r \in RequestsInFlight :
        LET p == requestOf(r)
        IN  /\ p.requirement1.heading \in {BCHeading, YearHeading}
            /\ p.requirement1.clauses # {}
            /\ p.location = r.name
            /\ p.coordinates = r.loc
            /\ p.weather = r.weather
            /\ p.shotVariation = variations[r.var]
            /\ p.userInstructions = (IF r.scene = "" THEN NoSceneGiven ELSE r.scene)
            /\ "Maintain facial identity strictly." \in p.subject
            /\ p.visualStyle = r.style

\* C29: a year that parses to a negative integer is displayed as
\* "<abs> B.C.", one that parses to a non-negative integer as "<n> A.D.", and
\* the display ends in B.C. for exactly the years for which the composer
\* takes its B.C. branch.  The years are those of the field and of every
\* request made, and every value the field can hold.
C29_YearDisplay ==
    /\ formatYearDisplay(Minus10000) = << "1", "0", "0", "0", "0", " B.C." >>
    /\ formatYearDisplay(DefaultFutureYear) = << "2", "0", "7", "7", " A.D." >>
    /\ \A year \in YearInputs \cup {selectedYear} \cup {r.year : r \in runs} :
          LET n == parseInt(year)
              shown == formatYearDisplay(year)
          IN  /\ (~isNaN(n) /\ n.value < 0) =>
                    shown = NumberToString(0 - n.value) \o << " B.C." >>
              /\ (~isNaN(n) /\ n.value >= 0) =>
                    shown = NumberToString(n.value) \o << " A.D." >>
              /\ (shown # << >> /\ shown[Len(shown)] = " B.C.")
                    <=> (historicInstruction(year).heading = BCHeading)

\* The field shows 10000 B.C. while a request for that year is in flight.
C29_Witness ==
    /\ selectedEra = PAST
    /\ selectedYear = Minus10000
    /\ formatYearDisplay(selectedYear) = << "1", "0", "0", "0", "0", " B.C." >>
    /\ \E r \in RequestsInFlight : r.year = Minus10000 /\ requestOf(r).requirement1.heading = BCHeading

\* ------------------------------------------------------------ C31 .. C40
\* Requests r and q were composed from the same arguments.
SameArguments(r, q) ==
    /\ r.name = q.name /\ r.loc = q.loc /\ r.era = q.era /\ r.year = q.year
    /\ r.scene = q.scene /\ r.style = q.style /\ r.weather = q.weather
    /\ r.var = q.var

C36_RegenerateSameParameters ==
    [][ (RegenerateShown /\ Cardinality(runs') > Cardinality(runs)) =>
            \A q \in runs' \ runs : \A i \in DOMAIN generatedImages :
                \E r \in runs :
                    /\ r.id = generatedImages[i].run
                    /\ q.era = r.era /\ q.year = r.year
                    /\ q.style = r.style /\ q.scene = r.scene ]_vars

\* C40: a run submitted with era Present has no year; a change of era to
\* Past sets the year to 1950, to Future 2077; the year changes otherwise
\* only while the era is Past or Future.
C40_EraYear ==
    [][ /\ \A r \in runs' : r.era = PRESENT => r.year = NoYear
        /\ (selectedEra' # selectedEra /\ selectedEra' = PAST) =>
                selectedYear' = DefaultPastYear
        /\ (selectedEra' # selectedEra /\ selectedEra' = FUTURE) =>
                selectedYear' = DefaultFutureYear
        /\ (selectedYear' # selectedYear /\ selectedEra' = selectedEra) =>
                selectedEra \in {PAST, FUTURE}
        /\ selectedEra' = PRESENT => selectedYear' = NoYear ]_vars

\* The user went to Past, edited the year, came back to Present and
\* generated: the request in flight is for Present with no year.
C40_Witness ==
    /\ selectedEra = PRESENT
    /\ selectedYear = NoYear
    /\ \E r \in RequestsInFlight : r.era = PRESENT /\ r.year = NoYear /\ r.scene # ""

\* The run that appended image number i.
RunOfImage(i) == CHOOSE r \in runs : r.id = generatedImages[i].run

\* C32: a run is started only when no service call or retry wait of an
\* earlier run is pending, so at most one run is in flight.
C32_OneRunInFlight ==
    [][ Cardinality(runs') > Cardinality(runs) => RequestsInFlight = {} ]_vars

\* C33: generatedImages never holds more than the two images of the target
\* count.
C33_AtMostTargetCount == Len(generatedImages) <= TargetCount

\* C34: every image held was generated for the selected location, by the
\* run started last.
C34_ImagesOfCurrentRun ==
    \A i \in DOMAIN generatedImages :
        /\ RunOfImage(i).loc = selectedLocation
        /\ RunOfImage(i).id = Cardinality(runs)

\* C35: with no location selected the session is cleared (status idle, no
\* context, no images); hence a status of ready_to_generate, generating_image
\* or complete comes with a selected location.
C35_ResetStaysCleared ==
    /\ selectedLocation = Null =>
          /\ status = "idle"
          /\ locationInfo = NoInfo
          /\ generatedImages = << >>
    /\ status \in {"ready_to_generate", "generating_image", "complete"} =>
          selectedLocation # Null

\* C38: a run starts only with a selected location, its context and a photo
\* attached; the handler called without a location or without a context
\* changes nothing (and so starts no run and makes no call).
C38_GenerationPreconditions ==
    [][ /\ Cardinality(runs') > Cardinality(runs) =>
              /\ selectedLocation # Null
              /\ locationInfo # NoInfo
              /\ selectedFile
              /\ \A q \in runs' \ runs : q.loc = selectedLocation /\ q.name = locationInfo.name
        /\ ((selectedLocation = Null \/ locationInfo = NoInfo) /\ handleGenerate) =>
              UNCHANGED vars ]_vars

\* The Regenerate button shows with a photo attached while the context of a
\* new selection is still awaited: the handler is called and returns at once.
C38_Witness ==
    /\ RegenerateShown
    /\ selectedFile
    /\ selectedLocation # Null
    /\ locationInfo = NoInfo
    /\ status = "complete"
    /\ Cardinality(runs) = 1
    /\ resolves[selectedLocation] > 0

\* The message of error e carries a marker of a rate limit.
HasRateMarker(e) == e.m429 \/ e.quota

\* C37: a failure whose message carries a rate-limit marker is shown as
\* rate-limited and leaves the key in place, also when the message carries a
\* marker of an invalid key; the message gives the wait of the error's hint,
\* rounded up to whole seconds.
C37_RateLimitFirst ==
    [][ \A r \in runs : \A e \in SvcErrors :
            ( /\ r.phase = "calling"
              /\ HasRateMarker(e)
              /\ ~shouldRetry(e, r.retryCount)
              /\ clientCatch(r, e) ) =>
                /\ status' = "error"
                /\ errorMessage'.kind = "rate"
                /\ apiKey' = apiKey
                /\ apiKeyReady' = apiKeyReady
                /\ e.hint # NoHint =>
                      errorMessage'.wait = (e.hint + 9) \div 10 ]_vars

\* A second variation failed for good on a rate limit with the hint 5.5 s:
\* the message says 6 seconds and the key is still there.
C37_Witness ==
    /\ status = "error"
    /\ errorMessage = RateMessage(6)
    /\ apiKeyReady
    /\ apiKey \in Keys
    /\ \E r \in runs : r.phase = "failed" /\ r.var = 2 /\ r.got = 1
    /\ Len(generatedImages) = 1

\* C39: while the key is flagged ready the stored key is not empty; every
\* run was started with a key, and no failure reported is the client's
\* "API Key is required".
C39_ReadyKeyNonEmpty ==
    /\ apiKeyReady => apiKey # NoKey
    /\ \A r \in runs : r.key # NoKey
    /\ errorMessage.detail # "API Key is required"

\* The key was cleared after a run had failed and a new one was submitted:
\* the Sidebar is mounted afresh and a resolution is under way.
C39_Witness ==
    /\ apiKeyReady
    /\ apiKey \in Keys
    /\ ~keyInit
    /\ ~selectedFile
    /\ \E r \in runs : r.phase = "failed" /\ r.key \in Keys
    /\ status = "analyzing_location"
    /\ nResolves = 2

====
